---- MODULE Spec2Model ----
(***************************************************************************)
(* The ingestion pipeline of taifex_data_pipeline: content-type            *)
(* resolution, archive extraction, CSV parsing, the generic row store and  *)
(* the orchestrator (process_single_file) that drives one uploaded file    *)
(* through them.                                                           *)
(***************************************************************************)
EXTENDS Integers, Sequences, FiniteSets, TLC

\* ------------------------------------------------------------------ bounds
MaxOps == 1        \* top-level calls (init_db, insert_structured_data, process_single_file) per behaviour
MaxMembers == 2    \* files an archive expands to
MaxRows == 2       \* data rows handed to a direct insert_structured_data call
MaxSources == 2    \* entries of download_urls in a stored configuration
MaxLoads == 2      \* load_config calls made on their own before main starts
MaxLines == 3      \* lines of a file handed to parse_csv_file
MaxExtracts == 2   \* extract_archive calls into one output directory
MaxSkip == 2       \* largest skiprows of a template
MaxTests == 2      \* apply_template_to_csv calls on one file

\* ------------------------------------------------------------- helpers
Range(s) == {s[i] : i \in 1..Len(s)}

SeqUpTo(S, n) == UNION {[1..k -> S] : k \in 0..n}

IsPrefix(s, t) == Len(s) <= Len(t) /\ \A i \in 1..Len(s) : s[i] = t[i]

\* ------------------------------------------------- config/settings.py
NoMime == "None"                                  \* get_file_mime_type returned None
AccessError == "error/file-not-accessible"
DetectionError == "error/mime-detection-failed"

SUPPORTED_MIME_TYPES ==
    ("application/zip" :> "zip") @@
    ("application/x-zip-compressed" :> "zip") @@
    ("application/x-rar-compressed" :> "rar") @@
    ("application/x-rar" :> "rar") @@
    ("application/x-7z-compressed" :> "7z") @@
    ("application/gzip" :> "gz") @@
    ("application/x-gzip" :> "gz") @@
    ("application/x-tar" :> "tar") @@
    ("application/x-bzip2" :> "bz2") @@
    ("text/plain" :> "text") @@
    ("text/csv" :> "csv") @@
    ("application/octet-stream" :> "binary") @@
    ("application/vnd.ms-excel" :> "csv") @@
    ("application/x-empty" :> "text") @@
    ("inode/x-empty" :> "text")

ArchiveCategories == {"zip", "rar", "7z", "gz", "tar", "bz2"}
TabularCategories == {"text", "csv"}

\* str.startswith("error/") on the strings handle_uploaded_file can return
StartsWithError(mime) == mime \in {AccessError, DetectionError}

\* the test  "text" in mime  on the content types of the model
TextInMime(mime) == mime \in {"text/plain", "text/csv"}

\* name.lower().endswith(".csv") on the file names of the model
EndsWithCsv(name) == name \in {"ok.csv", "ragged.csv", "hdr.csv", "gone.csv"}

\* os.path.splitext(name)[0] + "_proc" on the file names of the model
TempDirOf(name) ==
    CASE name = "data.zip" -> "data_proc"
      [] name = "ok.csv" -> "ok_proc"
      [] name = "hdr.csv" -> "hdr_proc"
      [] name = "notes.txt" -> "notes_proc"
      [] name = "sheet.xls" -> "sheet_proc"
      [] name = "gone.csv" -> "gone_proc"
      [] name = "locked.csv" -> "locked_proc"
      [] name = "odd.dat" -> "odd_proc"
      [] name = "paper.pdf" -> "paper_proc"
      [] name = "blob.bin" -> "blob_proc"
      [] OTHER -> "other_proc"

\* ------------------------------------------------------ pipeline/parser.py
\* A file as csv.reader sees it: the lines already split into cells; errAt = k > 0
\* means reading line k raises (UnicodeDecodeError, csv.Error).
NoFile == [exists |-> FALSE, errAt |-> 0, lines |-> <<>>]
TextFile(ls) == [exists |-> TRUE, errAt |-> 0, lines |-> ls]

\* str.strip() on the cells of the model
StripCell(c) ==
    CASE c = " " -> ""
      [] c = " A" -> "A"
      [] c = "B " -> "B"
      [] c = " 1 " -> "1"
      [] OTHER -> c

StripRow(row) == [i \in 1..Len(row) |-> StripCell(row[i])]

AnyNonBlank(row) == \E i \in 1..Len(row) : StripCell(row[i]) # ""

\* a slip: the first line is the header, blank or not
HeaderIndex_FirstLine(lines) == IF lines = <<>> THEN 0 ELSE 1

\* index of the first line with a non-blank cell, 0 when there is none
HeaderIndex(lines) ==
    IF \E i \in 1..Len(lines) : AnyNonBlank(lines[i])
    THEN CHOOSE i \in 1..Len(lines) :
             AnyNonBlank(lines[i]) /\ \A j \in 1..(i - 1) : ~AnyNonBlank(lines[j])
    ELSE 0

\* a slip: rows that are not as long as the header are left out
RECURSIVE DataRows_DropRagged(_, _)
DataRows_DropRagged(lines, i) ==
    IF i > Len(lines) THEN <<>>
    ELSE IF AnyNonBlank(lines[i]) /\ Len(lines[i]) = Len(lines[HeaderIndex(lines)])
         THEN <<StripRow(lines[i])>> \o DataRows_DropRagged(lines, i + 1)
         ELSE DataRows_DropRagged(lines, i + 1)

RECURSIVE DataRows(_, _)
DataRows(lines, i) ==
    IF i > Len(lines) THEN <<>>
    ELSE IF AnyNonBlank(lines[i])
         THEN <<StripRow(lines[i])>> \o DataRows(lines, i + 1)
         ELSE DataRows(lines, i + 1)

ParseSentinel == [header |-> <<>>, rows |-> <<>>]

\* a slip: an error while reading the data rows returns what was read so far
ParseCsvFile_PartialRows(f) ==
    IF ~f.exists THEN ParseSentinel
    ELSE LET h == HeaderIndex(f.lines) IN
         IF h = 0 \/ f.errAt \in 1..h
         THEN ParseSentinel
         ELSE IF f.errAt \in (h + 1)..Len(f.lines)
              THEN [header |-> StripRow(f.lines[h]),
                    rows |-> DataRows(SubSeq(f.lines, 1, f.errAt - 1), h + 1)]
              ELSE [header |-> StripRow(f.lines[h]),
                    rows |-> DataRows(f.lines, h + 1)]

ParseCsvFile(f) ==
    IF ~f.exists THEN ParseSentinel
    ELSE LET h == HeaderIndex(f.lines) IN
         IF h = 0
         THEN ParseSentinel                  \* no header, or the header loop raised
         ELSE IF f.errAt \in 1..h
              THEN ParseSentinel             \* raised while looking for the header
              ELSE IF f.errAt \in (h + 1)..Len(f.lines)
                   THEN ParseSentinel        \* raised while reading the data rows
                   ELSE [header |-> StripRow(f.lines[h]),
                         rows |-> DataRows(f.lines, h + 1)]

\* ---------------------------------------------------- pipeline/database.py
\* A cell json.dumps cannot serialize (raises TypeError); the parser never yields one.
NonJson == "<bytes>"

\* What the storage engine does during one call: connect raises, commit raises,
\* and the rows (by position) whose INSERT raises sqlite3.Error.
NoFault == [connect |-> FALSE, commit |-> FALSE, failRows |-> {}]

\* The two statement texts are written  ''''...'''  (lines 40-49 and 93-96): the
\* string handed to cursor.execute opens with a quote character.
create_table_sql == [first |-> "'", statement |-> "CREATE TABLE IF NOT EXISTS generic_data"]
insert_sql == [first |-> "'", statement |-> "INSERT INTO generic_data"]

\* The engine behind sqlite3.connect.  "sqlite3" is the library the module imports:
\* its tokenizer takes a leading quote for the start of a string literal, finds no
\* end of it and raises OperationalError (unrecognized token).  "accepting" is an
\* engine that runs the statement behind the quote.
Engines == {"sqlite3", "accepting"}

\* cursor.execute(sql) does not raise on the text
Accepts(eng, sql) == eng = "accepting" \/ sql.first # "'"

\* a slip: the table is dropped and created again
InitDbStore_Recreate(st) == <<>>

\* init_db: CREATE TABLE IF NOT EXISTS keeps the rows of an existing table
InitDbStore(st) == st

\* a slip: no length check
LengthMatches_Always(header, row) == TRUE

\* len(header) != len(row_values) skips the row
LengthMatches(header, row) == Len(header) = Len(row)

\* dict(zip(header, row_values)): one entry per distinct column name, the last
\* cell of a repeated name winning
RowDict(header, row) ==
    [c \in Range(header) |->
        row[CHOOSE i \in 1..Len(header) :
                header[i] = c /\ \A j \in (i + 1)..Len(header) : header[j] # c]]

Serializable(header, row) == \A c \in Range(header) : RowDict(header, row)[c] # NonJson

\* json.dumps(row_dict): the entries in the order their keys first appear
RECURSIVE JsonPairs(_, _, _)
JsonPairs(header, row, i) ==
    IF i > Len(header) THEN <<>>
    ELSE IF \E j \in 1..(i - 1) : header[j] = header[i]
         THEN JsonPairs(header, row, i + 1)
         ELSE <<<<header[i], RowDict(header, row)[header[i]]>>>>
              \o JsonPairs(header, row, i + 1)

JsonDumps(header, row) == JsonPairs(header, row, 1)

\* the row_number stored for the row at (1-based) position i: enumerate's i + 1
RowNumber(i) == i

\* the rows a call tries to INSERT: right length and serializable
Attempted(header, rows) ==
    {i \in 1..Len(rows) : LengthMatches(header, rows[i]) /\ Serializable(header, rows[i])}

Faults(header, rows) ==
    IF header = <<>> \/ rows = <<>>
    THEN {NoFault}                        \* the engine is never reached
    ELSE {[connect |-> TRUE, commit |-> FALSE, failRows |-> {}]}
         \cup [connect : {FALSE}, commit : BOOLEAN,
                failRows : SUBSET Attempted(header, rows)]

\* the rows whose INSERT raises under the engine: every row it is tried for when
\* the engine does not take the text
EngineFault(eng, header, rows, fault) ==
    IF Accepts(eng, insert_sql) THEN fault
    ELSE [fault EXCEPT !.failRows = Attempted(header, rows)]

\* init_db returns True: the path is usable and the engine takes the statement
InitDbOk(eng, engineOk) == engineOk /\ Accepts(eng, create_table_sql)

\* the for loop of insert_structured_data from position i on: the records the
\* open transaction holds
RECURSIVE InsertRows(_, _, _, _, _, _)
InsertRows(file_source, header, rows, fault, hasTable, i) ==
    IF i > Len(rows) THEN <<>>
    ELSE IF ~LengthMatches(header, rows[i])
         THEN InsertRows(file_source, header, rows, fault, hasTable, i + 1)
         ELSE IF ~Serializable(header, rows[i])
              THEN InsertRows(file_source, header, rows, fault, hasTable, i + 1)
              ELSE IF i \in fault.failRows \/ ~hasTable
                   \* sqlite3.Error on this row: logged, the loop goes on
                   THEN InsertRows(file_source, header, rows, fault, hasTable, i + 1)
                   ELSE <<[file_source |-> file_source,
                           data_type |-> "generic_csv",
                           row_number |-> RowNumber(i),
                           row_content_json |-> JsonDumps(header, rows[i])]>>
                        \o InsertRows(file_source, header, rows, fault, hasTable, i + 1)

\* a slip: the two early returns in the other order
ValidateInsert_RowsFirst(header, rows) ==
    IF rows = <<>> THEN "empty"
    ELSE IF header = <<>> THEN "reject"
    ELSE "write"

\* the two early returns: "reject" (empty header), "empty" (no rows), else "write"
ValidateInsert(header, rows) ==
    IF header = <<>> THEN "reject"
    ELSE IF rows = <<>> THEN "empty"
    ELSE "write"

\* conn.rollback() after a failed commit: the transaction's rows are gone
Rollback(st, txn) == st

\* the count returned beside False when commit raised
CountOnFailure(txn) == Len(txn)

InsertStructuredData(st, hasTable, file_source, header, rows, fault) ==
    LET v == ValidateInsert(header, rows) IN
    IF v = "reject"
    THEN [ok |-> FALSE, count |-> 0, store |-> st, connects |-> 0]
    ELSE IF v = "empty"
    THEN [ok |-> TRUE, count |-> 0, store |-> st, connects |-> 0]
    ELSE IF fault.connect
    THEN [ok |-> FALSE, count |-> 0, store |-> st, connects |-> 1]
    ELSE LET txn == InsertRows(file_source, header, rows, fault, hasTable, 1) IN
         IF fault.commit
         THEN [ok |-> FALSE, count |-> CountOnFailure(txn),
               store |-> Rollback(st, txn), connects |-> 1]
         ELSE [ok |-> TRUE, count |-> Len(txn), store |-> st \o txn, connects |-> 1]

\* ------------------------------------------------ pipeline/file_handler.py
\* A file on disk: its name, whether it exists and is readable, the content type
\* libmagic reports for it (NoMime: detection raises) and its text.
DiskFile(name, mime, content) ==
    [name |-> name, exists |-> TRUE, readable |-> TRUE, mime |-> mime, content |-> content]

GetFileMimeType(f) ==
    IF ~f.exists THEN NoMime
    ELSE IF ~f.readable THEN NoMime
    ELSE f.mime

\* what patoolib leaves in the output directory: nothing when it raises
ExtractArchive(u) == IF u.extractOk THEN u.members ELSE <<>>

\* the file itself, copied into the processing directory
PassThrough(u) == DiskFile(u.name, u.mime, u.content)

\* handle_uploaded_file once the source is known to be there (lines 97-135)
HandleAccessible(u) ==
    IF GetFileMimeType(u) = NoMime
    THEN [mime |-> DetectionError, files |-> <<>>, log |-> <<"get_file_mime_type">>]
    ELSE IF u.mime \in DOMAIN SUPPORTED_MIME_TYPES
    THEN IF SUPPORTED_MIME_TYPES[u.mime] \in ArchiveCategories
         THEN [mime |-> u.mime, files |-> ExtractArchive(u),
               log |-> <<"get_file_mime_type", "extract_archive">>]
         ELSE IF SUPPORTED_MIME_TYPES[u.mime] \in TabularCategories
         THEN [mime |-> u.mime,
               files |-> IF u.copyOk THEN <<PassThrough(u)>> ELSE <<>>,
               log |-> <<"get_file_mime_type">>]
         ELSE [mime |-> u.mime, files |-> <<>>, log |-> <<"get_file_mime_type">>]
    ELSE [mime |-> u.mime, files |-> <<>>, log |-> <<"get_file_mime_type">>]

\* a slip: no existence / readability test before detection
HandleUploadedFile_NoAccessCheck(u) == HandleAccessible(u)

HandleUploadedFile(u) ==
    IF ~u.exists \/ ~u.readable
    THEN [mime |-> AccessError, files |-> <<>>, log |-> <<>>]
    ELSE HandleAccessible(u)

\* ------------------------------------- extract_archive and its output directory
\* The output directory: abs, the path given is absolute; exists; files, the files
\* under it at any depth, each with its path below the directory and the archive
\* (or earlier run) it came from.
NoDir(abs) == [abs |-> abs, exists |-> FALSE, files |-> {}]
Dir(abs, files) == [abs |-> abs, exists |-> TRUE, files |-> files]
FileFrom(rel, origin) == [rel |-> rel, origin |-> origin]

\* the paths of the model in the order os.walk meets them: the files of a directory
\* before those of its subdirectories
WalkOrder ==
    <<"a.csv", ".hidden", "old.csv", ".git/config", "sub/b.csv", "sub/.DS_Store",
      "sub/deep/c.txt">>

\* file_name.startswith(".") on the last component of the paths of the model
HiddenFile(rel) == rel \in {".hidden", "sub/.DS_Store"}

\* the path lies directly in the directory walked
TopLevel(rel) == rel \in {"a.csv", ".hidden", "old.csv"}

\* os.path.join(root, file_name): absolute when the directory's path is
JoinPath(dir, rel) == [abs |-> dir.abs, rel |-> rel]

\* os.path.abspath
AbsPath(path) == [path EXCEPT !.abs = TRUE]

\* shutil.rmtree
RmTree(dir) == NoDir(dir.abs)

\* a slip: the directory is only created when missing, its content stays
ResetDir_Keep(dir) == Dir(dir.abs, dir.files)

\* lines 59-61: rmtree when it exists, then makedirs
ResetDir(dir) == Dir(dir.abs, {})

\* a slip: the handlers return without removing the directory
CleanUp_Leave(dir) == dir

\* lines 76 and 80: if os.path.exists(..): shutil.rmtree(.., ignore_errors=True)
CleanUp(dir) == IF dir.exists THEN RmTree(dir) ELSE dir

\* a slip: only the files directly in the output directory are listed
WalkFiles_TopOnly(dir) ==
    SelectSeq(WalkOrder, LAMBDA rel : /\ \E f \in dir.files : f.rel = rel
                                      /\ ~HiddenFile(rel) /\ TopLevel(rel))

\* lines 64-68: the os.walk loop
WalkFiles(dir) ==
    SelectSeq(WalkOrder, LAMBDA rel : (\E f \in dir.files : f.rel = rel) /\ ~HiddenFile(rel))

ExtractedFilesList(dir) ==
    [k \in 1..Len(WalkFiles(dir)) |-> AbsPath(JoinPath(dir, WalkFiles(dir)[k]))]

\* patoolib writing the entries `written` of the archive into the directory
WriteEntries(dir, archive, written) ==
    [dir EXCEPT !.files = {f \in @ : f.rel \notin written}
                          \cup {FileFrom(rel, archive.name) : rel \in written}]

\* extract_archive; outcome: what raises ("none", "makedirs", "patool") and the
\* entries patoolib wrote before it returned or raised
ExtractInto(dir, archive, outcome) ==
    IF outcome.raises = "makedirs"
    THEN [dir |-> CleanUp(RmTree(dir)), list |-> <<>>]
    ELSE LET after == WriteEntries(ResetDir(dir), archive, outcome.written) IN
         IF outcome.raises = "patool"
         THEN [dir |-> CleanUp(after), list |-> <<>>]
         ELSE [dir |-> after, list |-> ExtractedFilesList(after)]

\* temp_processing_dir_base: whether it exists and the names directly under it
BaseDir(exists, entries) == [exists |-> exists, entries |-> entries]

\* os.path.splitext(base_filename)[0] on the uploads of the model that are archives
ExtractionDirOf(name) == IF name = "data.zip" THEN "data" ELSE "other"

\* what handle_uploaded_file does to temp_processing_dir_base: nothing on an access
\* error; else makedirs (line 97), then the extraction directory (extract_archive
\* leaves it when it went through, removes it when it failed) or the copy
HandleEffect(base, u) ==
    IF ~u.exists \/ ~u.readable THEN base
    ELSE IF GetFileMimeType(u) = NoMime \/ u.mime \notin DOMAIN SUPPORTED_MIME_TYPES
    THEN BaseDir(TRUE, base.entries)
    ELSE IF SUPPORTED_MIME_TYPES[u.mime] \in ArchiveCategories
    THEN BaseDir(TRUE, IF u.extractOk
                       THEN base.entries \cup {ExtractionDirOf(u.name)}
                       ELSE base.entries \ {ExtractionDirOf(u.name)})
    ELSE IF SUPPORTED_MIME_TYPES[u.mime] \in TabularCategories /\ u.copyOk
    THEN BaseDir(TRUE, base.entries \cup {u.name})
    ELSE BaseDir(TRUE, base.entries)

\* ------------------------------------------------------------ the inputs
F_ok == TextFile(<< <<"A", "B">>, <<"1", "2">>, <<"3", "4">> >>)
F_ragged == TextFile(<< <<"A", "B">>, <<"1", "2", "9">>, <<"3", "4">> >>)
F_hdr == TextFile(<< <<"A", "B">> >>)
F_blank == TextFile(<< <<>>, <<" ", "">> >>)

Members ==
    { DiskFile("ragged.csv", "text/csv", F_ragged),
      DiskFile("blank.txt", "text/plain", F_blank),
      DiskFile("image.bin", "application/octet-stream", F_blank),
      \* a dangling link: os.walk lists it, os.path.exists denies it
      [name |-> "broken.lnk", exists |-> FALSE, readable |-> FALSE,
       mime |-> NoMime, content |-> NoFile] }

Upload(name, exists, readable, mime, content, copyOk, extractOk, members) ==
    [name |-> name, exists |-> exists, readable |-> readable, mime |-> mime,
     content |-> content, copyOk |-> copyOk, extractOk |-> extractOk, members |-> members]

Uploads ==
    { Upload("gone.csv", FALSE, FALSE, NoMime, NoFile, FALSE, FALSE, <<>>),
      Upload("locked.csv", TRUE, FALSE, "text/csv", F_ok, FALSE, FALSE, <<>>),
      Upload("odd.dat", TRUE, TRUE, NoMime, F_blank, FALSE, FALSE, <<>>),
      Upload("paper.pdf", TRUE, TRUE, "application/pdf", F_blank, FALSE, FALSE, <<>>),
      Upload("blob.bin", TRUE, TRUE, "application/octet-stream", F_blank, FALSE, FALSE, <<>>),
      Upload("sheet.xls", TRUE, TRUE, "application/vnd.ms-excel", F_ok, TRUE, FALSE, <<>>),
      Upload("data.zip", TRUE, TRUE, "application/zip", F_blank, FALSE, FALSE, <<>>) }
    \cup { Upload("ok.csv", TRUE, TRUE, "text/csv", F_ok, c, FALSE, <<>>) : c \in BOOLEAN }
    \cup { Upload("notes.txt", TRUE, TRUE, "text/plain", F_blank, TRUE, FALSE, <<>>),
           Upload("hdr.csv", TRUE, TRUE, "text/csv", F_hdr, TRUE, FALSE, <<>>) }
    \cup { Upload("data.zip", TRUE, TRUE, "application/zip", F_blank, FALSE, TRUE, ms) :
              ms \in SeqUpTo(Members, MaxMembers) }

Headers == { <<>>, <<"A", "B">> }
RowSet == { <<"1", "2">>, <<"1", "2", "9">>, <<"1", NonJson>> }

\* what earlier runs may have left in the store
PriorRecord ==
    [file_source |-> "earlier.csv", data_type |-> "generic_csv", row_number |-> 1,
     row_content_json |-> << <<"A", "1">> >>]

PriorStores == { <<>>, <<PriorRecord>> }

\* ------------------------------------------------------------- orchestrator.py
\* the status strings of the summary: 成功, 失敗, 跳過
Success == "success"
Failed == "failed"
Skipped == "skipped"

Entry(name, status) == [source_filename |-> name, status |-> status]

\* a slip: an archive that yields no file is not taken for a failure
Stage1Success_EmptyArchiveOk(mime, files) == mime # "" /\ ~StartsWithError(mime)

\* lines 74-100: overall_success after stage 1
Stage1Success(mime, files) ==
    IF mime # "" /\ ~StartsWithError(mime)
    THEN IF files # <<>>
         THEN TRUE
         ELSE IF mime \in DOMAIN SUPPORTED_MIME_TYPES
                 /\ SUPPORTED_MIME_TYPES[mime] \notin TabularCategories
         THEN FALSE
         ELSE IF mime \in DOMAIN SUPPORTED_MIME_TYPES
                 /\ SUPPORTED_MIME_TYPES[mime] \in TabularCategories
                 /\ files = <<>>
         THEN FALSE
         ELSE TRUE
    ELSE FALSE

\* lines 158-164: the summary when the member loop does not run
NoLoopSummary(name, mime, overall) ==
    IF ~overall
    THEN <<Entry(name, Failed)>>
    ELSE IF ~StartsWithError(mime) THEN <<Entry(name, Skipped)>> ELSE <<>>

\* line 113, once get_file_mime_type has returned a string
IsLikelyCsv(m) == EndsWithCsv(m.name) \/ TextInMime(GetFileMimeType(m))

\* line 113 raises TypeError:  "text" in None
TypeCheckRaises(m) == ~EndsWithCsv(m.name) /\ GetFileMimeType(m) = NoMime

\* a slip: the member goes to the store whatever the parser returned
HeaderFound_Always(parsed) == TRUE

\* line 127: if parsed_data["header"]
HeaderFound(parsed) == parsed.header # <<>>

\* a slip: break instead of continue
AfterParseFailure_Break(i, n) == n + 1

\* line 138: continue after a member that did not parse
AfterParseFailure(i, n) == i + 1

\* a slip: a member whose batch failed is still entered as stored
MemberStatus_AlwaysSuccess(db_success) == Success

\* lines 147-157: the member's status from insert's first result
MemberStatus(db_success) == IF db_success THEN Success ELSE Failed

\* -------------------------------------------------------------- Taifexdtool.py
\* the flat tool: load_config, download_data, parse_csv_data, init_db, insert_data, main

default_config ==
    [database_path |-> "taifex_data.sqlite", log_file |-> "taifexdtool.log",
     log_level |-> "INFO", download_urls |-> <<>>]

\* no configuration: load_config has not returned one
NoConfig == [database_path |-> "", log_file |-> "", log_level |-> "", download_urls |-> <<>>]

\* What is at config_path: dir, the directory of the path exists; file, "absent",
\* "malformed" (not valid JSON) or "json" holding the value json.load would give.
ConfigPath(dir, kind, value) == [dir |-> dir, kind |-> kind, value |-> value]

\* json.dump(default_config, f): the file then holds a JSON object json.load reads
\* back as an equal dict (strings and a list of strings only)
JsonDump(cf, value) == [cf EXCEPT !.kind = "json", !.value = value]
JsonLoad(cf) == cf.value

\* a slip: an existing file is overwritten with the defaults
LoadConfig_AlwaysDefaults(cf) ==
    IF cf.dir
    THEN [config |-> default_config, path |-> JsonDump(cf, default_config), exit |-> 0]
    ELSE [config |-> NoConfig, path |-> cf, exit |-> 1]

\* a slip: a file that is not valid JSON is replaced by the defaults
LoadConfig_ReplaceMalformed(cf) ==
    IF cf.kind = "json"
    THEN [config |-> JsonLoad(cf), path |-> cf, exit |-> 0]
    ELSE IF cf.dir
    THEN [config |-> default_config, path |-> JsonDump(cf, default_config), exit |-> 0]
    ELSE [config |-> NoConfig, path |-> cf, exit |-> 1]

\* load_config: the configuration returned, config_path afterwards and the exit
\* code (0: the call returned)
LoadConfig(cf) ==
    IF cf.kind = "json"
    THEN [config |-> JsonLoad(cf), path |-> cf, exit |-> 0]
    ELSE IF cf.kind = "malformed"
    THEN [config |-> NoConfig, path |-> cf, exit |-> 1]          \* JSONDecodeError
    ELSE IF cf.dir
    THEN [config |-> default_config, path |-> JsonDump(cf, default_config), exit |-> 0]
    ELSE [config |-> NoConfig, path |-> cf, exit |-> 1]          \* FileNotFoundError on open(.., 'w')

\* the sources of the flat tool and what is on disk for each
DefaultSources ==
    <<"sample_data.csv", "http://example.com/nonexistent.csv", "non_existent_file.txt",
      "empty_file.csv">>

FlatSources == Range(DefaultSources) \cup {"notes.txt", "ragged.csv"}

StartsWithHttp(source) == source = "http://example.com/nonexistent.csv"

\* source.endswith(".csv") on the sources of the model
SourceEndsWithCsv(source) ==
    source \in {"sample_data.csv", "http://example.com/nonexistent.csv", "empty_file.csv",
                "ragged.csv"}

\* the local file a source names; main itself writes empty_file.csv (header only)
LocalFile(source) ==
    CASE source = "sample_data.csv" -> TextFile(<< <<"A", "B">>, <<"1", "2">>, <<"3", "4">> >>)
      [] source = "ragged.csv" -> TextFile(<< <<"A", "B">>, <<"1", "2", "9">> >>)
      [] source = "empty_file.csv" -> TextFile(<< <<"HeaderA", "HeaderB">> >>)
      [] source = "notes.txt" -> TextFile(<< <<"hello">> >>)
      [] OTHER -> NoFile

\* download_data: the text read, NoFile for None
DownloadData(source) ==
    IF StartsWithHttp(source) THEN NoFile
    ELSE IF LocalFile(source).exists THEN LocalFile(source)
    ELSE NoFile

\* line.strip() is empty: no cell at all, or one blank cell
BlankLine(row) == row = <<>> \/ (Len(row) = 1 /\ StripCell(row[1]) = "")

RECURSIVE FlatDataRows(_, _)
FlatDataRows(lines, i) ==
    IF i > Len(lines) THEN <<>>
    ELSE IF ~BlankLine(lines[i]) /\ AnyNonBlank(lines[i])
         THEN <<StripRow(lines[i])>> \o FlatDataRows(lines, i + 1)
         ELSE FlatDataRows(lines, i + 1)

\* parse_csv_data on the text of a file
ParseCsvData(f) ==
    IF \A i \in 1..Len(f.lines) : BlankLine(f.lines[i])
    THEN ParseSentinel
    ELSE LET h == CHOOSE i \in 1..Len(f.lines) :
                      ~BlankLine(f.lines[i]) /\ \A j \in 1..(i - 1) : BlankLine(f.lines[j])
         IN  [header |-> StripRow(f.lines[h]), rows |-> FlatDataRows(f.lines, h + 1)]

\* the for loop of insert_data from position i on: the records written so far, or
\* raised once an INSERT raised sqlite3.Error (the loop has no inner handler)
RECURSIVE FlatInsertRows(_, _, _, _, _, _)
FlatInsertRows(file_source, header, rows, fault, hasTable, i) ==
    IF i > Len(rows) THEN [raised |-> FALSE, txn |-> <<>>]
    ELSE IF ~LengthMatches(header, rows[i]) \/ ~Serializable(header, rows[i])
         THEN FlatInsertRows(file_source, header, rows, fault, hasTable, i + 1)
         ELSE IF i \in fault.failRows \/ ~hasTable
              THEN [raised |-> TRUE, txn |-> <<>>]
              ELSE LET rest == FlatInsertRows(file_source, header, rows, fault, hasTable, i + 1)
                   IN  [raised |-> rest.raised,
                        txn |-> <<[file_source |-> file_source,
                                   row_number |-> i - 1,            \* enumerate's idx
                                   data_json |-> JsonDumps(header, rows[i])]>> \o rest.txn]

\* insert_data
FlatInsertData(st, hasTable, file_source, header, rows, fault) ==
    IF header = <<>> THEN [ok |-> FALSE, count |-> 0, store |-> st]
    ELSE IF rows = <<>> THEN [ok |-> TRUE, count |-> 0, store |-> st]
    ELSE IF fault.connect THEN [ok |-> FALSE, count |-> 0, store |-> st]
    ELSE LET w == FlatInsertRows(file_source, header, rows, fault, hasTable, 1) IN
         IF w.raised \/ fault.commit
         THEN [ok |-> FALSE, count |-> 0, store |-> st]          \* rollback
         ELSE IF Len(w.txn) > 0
         THEN [ok |-> TRUE, count |-> Len(w.txn), store |-> st \o w.txn]
         ELSE [ok |-> FALSE, count |-> 0, store |-> st]          \* rows present, none inserted

\* config.get("download_urls", []), the default test files when it is empty
DownloadSources(cfg) ==
    IF cfg.download_urls = <<>> THEN DefaultSources ELSE cfg.download_urls

FlatEntry(source, status, rows_parsed, rows_inserted) ==
    [source |-> source, status |-> status, rows_parsed |-> rows_parsed,
     rows_inserted |-> rows_inserted]

\* one pass of main's loop (lines 487-576) for a source: its summary entry and the store
ProcessSource(st, hasTable, source, fault) ==
    LET data == DownloadData(source)
        parsed == ParseCsvData(data)
        r == FlatInsertData(st, hasTable, source, parsed.header, parsed.rows, fault)
    IN  IF ~data.exists
        THEN [entry |-> FlatEntry(source, "Failed", 0, 0), store |-> st, step |-> "download"]
        ELSE IF ~SourceEndsWithCsv(source)
        THEN [entry |-> FlatEntry(source, "Skipped", 0, 0), store |-> st, step |-> "read"]
        ELSE IF parsed.header = <<>>
        THEN [entry |-> FlatEntry(source, "Failed", 0, 0), store |-> st, step |-> "parse"]
        ELSE IF parsed.rows = <<>>
        THEN [entry |-> FlatEntry(source, "Success", 0, 0), store |-> st, step |-> "parse"]
        ELSE [entry |-> FlatEntry(source, IF r.ok THEN "Success" ELSE "Failed",
                                  Len(parsed.rows), r.count),
              store |-> r.store, step |-> "insert"]

\* ------------------------------------------------------------------ test.py
SampleRows == 5    \* rows kept in sample_data

NoMessage == "None"                               \* error_message is None

Template(delimiter, skiprows, encoding) ==
    [delimiter |-> delimiter, skiprows |-> skiprows, encoding |-> encoding]

DATA_RECOGNITION_TEMPLATES ==
    <<Template(",", 0, "utf-8"), Template(";", 0, "utf-8"),
      Template(",", 2, "utf-8"), Template("\t", 0, "utf-16")>>

\* the encodings open() knows; any other name raises LookupError
KnownEncodings == {"utf-8", "utf-16"}

\* a file at csv_filepath: its encoding, its lines, and the first line that cannot
\* be read (bad = 0: none): "decode" fails when the line is read from the file,
\* "csv" fails when csv.reader parses it
CsvText(exists, encoding, lines, bad, badKind) ==
    [exists |-> exists, encoding |-> encoding, lines |-> lines, bad |-> bad,
     badKind |-> badKind]

\* csv.reader(f, delimiter=delimiter) on one line
SplitLine(line, delimiter) ==
    IF line = "" THEN <<>>
    ELSE IF line = "a,b" /\ delimiter = "," THEN <<"a", "b">>
    ELSE IF line = "a;b" /\ delimiter = ";" THEN <<"a", "b">>
    ELSE <<line>>

\* where and how reading the file under the template's encoding fails
ReadFault(f, template) ==
    IF f.encoding # template.encoding /\ f.lines # <<>>
    THEN [at |-> 1, kind |-> "decode",
          message |-> IF template.encoding = "utf-16"
                      THEN "An unexpected error occurred" ELSE "Encoding error"]
    ELSE [at |-> f.bad, kind |-> f.badKind,
          message |-> IF f.badKind = "decode"
                      THEN "Encoding error" ELSE "CSV parsing error"]

TestResult(success, rows_read, error_message, sample_data) ==
    [success |-> success, rows_read |-> rows_read, error_message |-> error_message,
     sample_data |-> sample_data]

\* apply_template_to_csv(csv_filepath, template)
ApplyTemplateToCsv(f, template) ==
    LET n == template.skiprows
        fault == ReadFault(f, template)
        rows == [i \in 1..(Len(f.lines) - n) |-> SplitLine(f.lines[i + n], template.delimiter)]
        \* the row at which the reader raises; a line csv.reader cannot parse does
        \* no harm when next(f) discards it
        faultRow == IF fault.at > n THEN fault.at - n ELSE 0
        delivered == IF faultRow = 0 THEN rows ELSE SubSeq(rows, 1, faultRow - 1)
        sample_data == IF Len(delivered) <= SampleRows THEN delivered
                       ELSE SubSeq(delivered, 1, SampleRows)
    IN  IF ~f.exists
        THEN TestResult(FALSE, 0, "File not found", <<>>)
        ELSE IF template.encoding \notin KnownEncodings
        THEN TestResult(FALSE, 0, "Invalid encoding name", <<>>)
        ELSE IF fault.at \in 1..n /\ fault.kind = "decode"
        THEN TestResult(FALSE, 0, fault.message, <<>>)            \* next(f) raises
        ELSE IF n > Len(f.lines)
        THEN TestResult(n > 0, 0, "No lines to read", <<>>)       \* StopIteration
        ELSE IF faultRow # 0
        THEN TestResult(FALSE, 0, fault.message, sample_data)
        ELSE TestResult(TRUE, Len(rows), NoMessage, sample_data)

\* run_tests_on_csv(csv_filepath, templates)
RunTestsOnCsv(f, templates) ==
    [k \in 1..Len(templates) |-> ApplyTemplateToCsv(f, templates[k])]

\* ------------------------------------------------------------------ state
VARIABLES
    store,             \* the committed rows of generic_data, in id order
    tableExists,       \* generic_data has been created
    tempDirs,          \* the per-file processing directories that exist under temp_base_dir
    nOps,              \* top-level calls made so far
    pc,                \* "idle": at the caller; "called": a direct store call has ended;
                       \* process_single_file: "loop", "done", "raised", "aborted"
    upload,            \* the uploaded file of the current run
    detected_mime,     \* handle_uploaded_file's first result
    extracted_files,   \* handle_uploaded_file's second result
    idx,               \* position of the member loop (1-based)
    overall_success,
    summary,           \* processed_data_summary
    ret,               \* what process_single_file returned
    calls,             \* the component functions the current run has called, in order
    visits,            \* per member visited by the loop: what was done with it
    last               \* the latest init_db / insert_structured_data call and its result

\* the flat tool (Taifexdtool.py)
VARIABLES
    configFile,                \* what is at config_path
    config,                    \* what the latest load_config returned
    exitCode,                  \* 0 while the program runs, the code passed to exit() after
    nLoads,                    \* load_config calls made so far
    cfgBefore,                 \* config_path as the latest load_config call found it
    flatPc,                    \* main: "start", "configured", "loop", "reported"; "exited"
    flatInitOk,                \* main's init_db call went through
    download_sources,
    processing_summary_list

flatVars == <<configFile, config, exitCode, nLoads, cfgBefore, flatPc, flatInitOk,
              download_sources, processing_summary_list>>

\* parse_csv_file called on its own
VARIABLES
    file_path,                 \* the file at the path handed to parse_csv_file
    parse_result               \* what parse_csv_file returned

parserVars == <<file_path, parse_result>>

\* extract_archive called on its own
VARIABLES
    output_directory,          \* the directory at the path handed to extract_archive
    nExtracts,                 \* calls made so far
    lastExtract,               \* the latest call: its archive, what happened, its result
    prevExtract                \* the call before it

extractVars == <<output_directory, nExtracts, lastExtract, prevExtract>>

\* get_file_mime_type and handle_uploaded_file called on their own
VARIABLES
    source_file,               \* the file at the path handed to the call
    baseDir,                   \* temp_processing_dir_base
    resolved                   \* the latest call: the function, what it returned

resolveVars == <<source_file, baseDir, resolved>>

\* the template tester (test.py)
VARIABLES
    tested_file,               \* the file at csv_filepath
    tested_template,           \* the template of the latest apply_template_to_csv call
    test_result,               \* what that call returned
    nTests                     \* apply_template_to_csv calls made so far

testerVars == <<tested_file, tested_template, test_result, nTests>>

\* insert_data and insert_structured_data called on the same batch
VARIABLES
    batch,                     \* the header and rows handed to both, and what the engine does
    flat_outcome,              \* what insert_data returned
    pipeline_outcome           \* what insert_structured_data returned

insertVars == <<batch, flat_outcome, pipeline_outcome>>

\* the engine the store functions of the pipeline talk to; no step changes it
VARIABLE engine

\* the state the pipeline specification never touches
unitVars == <<flatVars, parserVars, extractVars, resolveVars, testerVars, insertVars, engine>>

vars == <<store, tableExists, tempDirs, nOps, pc, upload, detected_mime, extracted_files,
          idx, overall_success, summary, ret, calls, visits, last, unitVars>>

NoUpload == Upload("", FALSE, FALSE, NoMime, NoFile, FALSE, FALSE, <<>>)
NoRet == [kind |-> "none", status |-> FALSE]
NoCall ==
    [op |-> "none", file_source |-> "", header |-> <<>>, rows |-> <<>>, fault |-> NoFault,
     pre |-> <<>>, hadTable |-> FALSE, ok |-> FALSE, count |-> 0, connects |-> 0]

InsertRecord(file_source, header, rows, fault, r) ==
    [op |-> "insert", file_source |-> file_source, header |-> header, rows |-> rows,
     fault |-> fault, pre |-> store, hadTable |-> tableExists,
     ok |-> r.ok, count |-> r.count, connects |-> r.connects]

Visit(i, what, header, rows, fault, r, base) ==
    [member |-> i, what |-> what, header |-> header, rows |-> rows, fault |-> fault,
     ok |-> r.ok, count |-> r.count, base |-> base]

NoResult == [ok |-> FALSE, count |-> 0, store |-> <<>>, connects |-> 0]

\* process_single_file is not running
PipelineAtRest ==
    /\ tempDirs = {}
    /\ nOps = 0
    /\ pc = "idle"
    /\ upload = NoUpload
    /\ detected_mime = ""
    /\ extracted_files = <<>>
    /\ idx = 0
    /\ overall_success = TRUE
    /\ summary = <<>>
    /\ ret = NoRet
    /\ calls = <<>>
    /\ visits = <<>>
    /\ last = NoCall

\* the flat tool is not running
FlatAtRest ==
    /\ configFile = ConfigPath(TRUE, "absent", NoConfig)
    /\ config = NoConfig
    /\ exitCode = 0
    /\ nLoads = 0
    /\ cfgBefore = ConfigPath(TRUE, "absent", NoConfig)
    /\ flatPc = "start"
    /\ flatInitOk = FALSE
    /\ download_sources = <<>>
    /\ processing_summary_list = <<>>

NotParsed == [returned |-> FALSE, header |-> <<>>, rows |-> <<>>]

\* parse_csv_file has not been called
ParserAtRest == file_path = NoFile /\ parse_result = NotParsed

NoArchive == [name |-> "", entries |-> {}]
NoExtract ==
    [called |-> FALSE, archive |-> NoArchive, raises |-> "none", partial |-> FALSE,
     pre |-> NoDir(TRUE), list |-> <<>>]

\* extract_archive has not been called
ExtractAtRest ==
    /\ output_directory = NoDir(TRUE)
    /\ nExtracts = 0
    /\ lastExtract = NoExtract
    /\ prevExtract = NoExtract

NotResolved ==
    [called |-> FALSE, fn |-> "", value |-> "", files |-> <<>>, pre |-> BaseDir(FALSE, {})]

\* neither function has been called
ResolveAtRest ==
    /\ source_file = NoUpload
    /\ baseDir = BaseDir(FALSE, {})
    /\ resolved = NotResolved

NoCsvText == CsvText(FALSE, "", <<>>, 0, "")
NoTemplate == Template("", 0, "")
NotTested == [called |-> FALSE, result |-> TestResult(FALSE, 0, NoMessage, <<>>)]

\* apply_template_to_csv has not been called
TesterAtRest ==
    /\ tested_file = NoCsvText
    /\ tested_template = NoTemplate
    /\ test_result = NotTested
    /\ nTests = 0

Batch(header, rows, fault, hasTable) ==
    [header |-> header, rows |-> rows, fault |-> fault, hasTable |-> hasTable]
NoBatch == Batch(<<>>, <<>>, NoFault, FALSE)
NotInserted == [called |-> FALSE, ok |-> FALSE, count |-> 0, written |-> <<>>]

\* neither insert has been called
InsertAtRest ==
    /\ batch = NoBatch
    /\ flat_outcome = NotInserted
    /\ pipeline_outcome = NotInserted

Init ==
    /\ engine \in Engines
    /\ store \in PriorStores
    /\ tableExists \in (IF store = <<>> THEN BOOLEAN ELSE {TRUE})
    /\ PipelineAtRest
    /\ FlatAtRest
    /\ ParserAtRest
    /\ ExtractAtRest
    /\ ResolveAtRest
    /\ TesterAtRest
    /\ InsertAtRest

Idle == pc = "idle" /\ nOps < MaxOps

\* database.init_db called on its own; engineOk = FALSE: the path is not usable,
\* makedirs or connect raises
InitDbCall(engineOk) ==
    /\ Idle
    /\ nOps' = nOps + 1
    /\ tableExists' = (tableExists \/ InitDbOk(engine, engineOk))
    /\ store' = IF InitDbOk(engine, engineOk) THEN InitDbStore(store) ELSE store
    /\ last' = [NoCall EXCEPT !.op = "init_db", !.pre = store, !.hadTable = tableExists,
                              !.fault = [NoFault EXCEPT !.connect = ~engineOk],
                              !.ok = InitDbOk(engine, engineOk)]
    /\ pc' = "called"
    /\ UNCHANGED <<tempDirs, upload, detected_mime, extracted_files, idx, overall_success,
                   summary, ret, calls, visits, unitVars>>

\* database.insert_structured_data called on its own
InsertCall(header, rows, fault) ==
    /\ Idle
    /\ nOps' = nOps + 1
    /\ LET r == InsertStructuredData(store, tableExists, "direct", header, rows,
                                     EngineFault(engine, header, rows, fault)) IN
       /\ store' = r.store
       /\ last' = InsertRecord("direct", header, rows, fault, r)
    /\ pc' = "called"
    /\ UNCHANGED <<tableExists, tempDirs, upload, detected_mime, extracted_files, idx,
                   overall_success, summary, ret, calls, visits, unitVars>>

\* process_single_file up to the member loop (lines 40-103), and to its return
\* when the loop does not run
ProcessStart(u, engineOk) ==
    /\ Idle
    /\ nOps' = nOps + 1
    /\ upload' = u
    /\ tableExists' = (tableExists \/ InitDbOk(engine, engineOk))
    /\ store' = IF InitDbOk(engine, engineOk) THEN InitDbStore(store) ELSE store
    /\ last' = [NoCall EXCEPT !.op = "init_db", !.pre = store, !.hadTable = tableExists,
                              !.fault = [NoFault EXCEPT !.connect = ~engineOk],
                              !.ok = InitDbOk(engine, engineOk)]
    /\ visits' = <<>>
    /\ idx' = 1
    /\ UNCHANGED unitVars
    /\ IF ~InitDbOk(engine, engineOk)
       THEN /\ pc' = "aborted"
            /\ ret' = [kind |-> "bool", status |-> FALSE]
            /\ calls' = <<"init_db">>
            /\ detected_mime' = ""
            /\ extracted_files' = <<>>
            /\ overall_success' = TRUE
            /\ summary' = <<>>
            /\ UNCHANGED tempDirs
       ELSE LET h == HandleUploadedFile(u)
                ok == Stage1Success(h.mime, h.files)
            IN  /\ calls' = <<"init_db", "handle_uploaded_file">> \o h.log
                /\ detected_mime' = h.mime
                /\ extracted_files' = h.files
                /\ overall_success' = ok
                /\ IF ok /\ h.files # <<>>
                   THEN /\ pc' = "loop"
                        /\ summary' = <<>>
                        /\ ret' = NoRet
                        /\ tempDirs' = tempDirs \cup {TempDirOf(u.name)}
                   ELSE /\ pc' = "done"
                        /\ summary' = NoLoopSummary(u.name, h.mime, ok)
                        /\ ret' = [kind |-> "pair", status |-> ok]
                        /\ tempDirs' = tempDirs \ {TempDirOf(u.name)}

\* one iteration of the member loop (lines 104-157)
ProcessMember ==
    /\ pc = "loop"
    /\ idx <= Len(extracted_files)
    /\ LET m == extracted_files[idx]
           n == Len(extracted_files)
           parsed == ParseCsvFile(m.content)
       IN
       IF TypeCheckRaises(m)
       THEN \* the TypeError leaves process_single_file: no return value, no cleanup
            /\ pc' = "raised"
            /\ calls' = Append(calls, "get_file_mime_type")
            /\ UNCHANGED <<store, last, idx, overall_success, summary, visits>>
       ELSE IF ~IsLikelyCsv(m)
       THEN /\ summary' = Append(summary, Entry(m.name, Skipped))
            /\ visits' = Append(visits, Visit(idx, "skipped", <<>>, <<>>, NoFault, NoResult,
                                              Len(store)))
            /\ calls' = Append(calls, "get_file_mime_type")
            /\ idx' = idx + 1
            /\ UNCHANGED <<store, last, pc, overall_success>>
       ELSE IF ~HeaderFound(parsed)
       THEN /\ overall_success' = FALSE
            /\ summary' = Append(summary, Entry(m.name, Failed))
            /\ visits' = Append(visits, Visit(idx, "parse_failed", <<>>, <<>>, NoFault,
                                              NoResult, Len(store)))
            /\ calls' = calls \o (IF EndsWithCsv(m.name) THEN <<>> ELSE <<"get_file_mime_type">>)
                              \o <<"parse_csv_file">>
            /\ idx' = AfterParseFailure(idx, n)
            /\ UNCHANGED <<store, last, pc>>
       ELSE \E fault \in Faults(parsed.header, parsed.rows) :
            LET r == InsertStructuredData(store, tableExists, m.name, parsed.header,
                                          parsed.rows,
                                          EngineFault(engine, parsed.header, parsed.rows,
                                                      fault))
            IN  /\ store' = r.store
                /\ last' = InsertRecord(m.name, parsed.header, parsed.rows, fault, r)
                /\ overall_success' = (overall_success /\ r.ok)
                /\ summary' = Append(summary, Entry(m.name, MemberStatus(r.ok)))
                /\ visits' = Append(visits, Visit(idx, "stored", parsed.header,
                                                  parsed.rows, fault, r, Len(store)))
                /\ calls' = calls \o (IF EndsWithCsv(m.name) THEN <<>>
                                      ELSE <<"get_file_mime_type">>)
                                  \o <<"parse_csv_file", "insert_structured_data">>
                /\ idx' = idx + 1
                /\ UNCHANGED pc
    /\ UNCHANGED <<tableExists, tempDirs, nOps, upload, detected_mime, extracted_files, ret,
                   unitVars>>

\* after the loop (lines 166-178): the final banner, the cleanup, the return
ProcessFinish ==
    /\ pc = "loop"
    /\ idx > Len(extracted_files)
    /\ pc' = "done"
    /\ tempDirs' = tempDirs \ {TempDirOf(upload.name)}
    /\ ret' = [kind |-> "pair", status |-> overall_success]
    /\ UNCHANGED <<store, tableExists, nOps, upload, detected_mime, extracted_files, idx,
                   overall_success, summary, calls, visits, last, unitVars>>

\* control is back at the caller: the call's frame and results are gone, the
\* store and the directories stay
Return ==
    /\ pc \in {"called", "done", "raised", "aborted"}
    /\ pc' = "idle"
    /\ upload' = NoUpload
    /\ detected_mime' = ""
    /\ extracted_files' = <<>>
    /\ idx' = 0
    /\ overall_success' = TRUE
    /\ summary' = <<>>
    /\ ret' = NoRet
    /\ calls' = <<>>
    /\ visits' = <<>>
    /\ last' = NoCall
    /\ UNCHANGED <<store, tableExists, tempDirs, nOps, unitVars>>

Next ==
    \/ \E engineOk \in BOOLEAN : InitDbCall(engineOk)
    \/ \E header \in Headers, rows \in SeqUpTo(RowSet, MaxRows) :
          \E fault \in Faults(header, rows) : InsertCall(header, rows, fault)
    \/ \E u \in Uploads, engineOk \in BOOLEAN : ProcessStart(u, engineOk)
    \/ ProcessMember
    \/ ProcessFinish
    \/ Return

Spec == Init /\ [][Next]_vars

\* ------------------------------------------------- the flat tool's run
pipeVars == <<tempDirs, nOps, pc, upload, detected_mime, extracted_files, idx,
              overall_success, summary, ret, calls, visits, last>>

\* what the flat tool never touches
notFlat == <<pipeVars, parserVars, extractVars, resolveVars, testerVars, insertVars, engine>>

\* the configurations a user has stored: never equal to the defaults, so a file
\* holding the defaults is one load_config wrote
StoredConfigs ==
    {[database_path |-> "test_data.sqlite", log_file |-> "test_tool.log",
      log_level |-> "DEBUG", download_urls |-> u] : u \in SeqUpTo(FlatSources, MaxSources)}

ConfigPaths ==
    {ConfigPath(FALSE, "absent", NoConfig), ConfigPath(TRUE, "absent", NoConfig),
     ConfigPath(TRUE, "malformed", NoConfig)}
    \cup {ConfigPath(TRUE, "json", c) : c \in StoredConfigs}

InitFlat ==
    /\ engine = "sqlite3"
    /\ store = <<>>
    /\ tableExists \in BOOLEAN
    /\ PipelineAtRest
    /\ configFile \in ConfigPaths
    /\ config = NoConfig
    /\ exitCode = 0
    /\ nLoads = 0
    /\ cfgBefore = configFile
    /\ flatPc = "start"
    /\ flatInitOk = FALSE
    /\ download_sources = <<>>
    /\ processing_summary_list = <<>>
    /\ ParserAtRest
    /\ ExtractAtRest
    /\ ResolveAtRest
    /\ TesterAtRest
    /\ InsertAtRest

\* load_config(config_path) called on its own, as the tests do
LoadConfigCall ==
    /\ flatPc = "start"
    /\ nLoads < MaxLoads
    /\ LET r == LoadConfig(configFile) IN
       /\ config' = r.config
       /\ configFile' = r.path
       /\ exitCode' = r.exit
       /\ flatPc' = IF r.exit = 0 THEN "start" ELSE "exited"
    /\ cfgBefore' = configFile
    /\ nLoads' = nLoads + 1
    /\ UNCHANGED <<store, tableExists, notFlat, flatInitOk, download_sources,
                   processing_summary_list>>

\* main up to the logging set-up (lines 419-462)
MainStart ==
    /\ flatPc = "start"
    /\ LET r == LoadConfig(configFile) IN
       /\ config' = r.config
       /\ configFile' = r.path
       /\ exitCode' = r.exit
       /\ flatPc' = IF r.exit = 0 THEN "configured" ELSE "exited"
    /\ cfgBefore' = configFile
    /\ nLoads' = nLoads + 1
    /\ UNCHANGED <<store, tableExists, notFlat, flatInitOk, download_sources,
                   processing_summary_list>>

\* main, lines 464-485: init_db, whose sqlite3.Error is logged and not reported,
\* and the list of sources
MainInitDb(engineOk) ==
    /\ flatPc = "configured"
    /\ flatInitOk' = engineOk
    /\ tableExists' = (tableExists \/ engineOk)
    /\ store' = IF engineOk THEN InitDbStore(store) ELSE store
    /\ download_sources' = DownloadSources(config)
    /\ flatPc' = "loop"
    /\ UNCHANGED <<notFlat, configFile, config, exitCode, nLoads, cfgBefore,
                   processing_summary_list>>

\* the faults the engine can show while a source's rows are written
SourceFaults(source) ==
    LET parsed == ParseCsvData(DownloadData(source)) IN
    IF ~DownloadData(source).exists \/ ~SourceEndsWithCsv(source)
    THEN {NoFault}
    ELSE Faults(parsed.header, parsed.rows)

\* main, lines 487-576: one pass of the loop
MainSource ==
    /\ flatPc = "loop"
    /\ Len(processing_summary_list) < Len(download_sources)
    /\ LET source == download_sources[Len(processing_summary_list) + 1] IN
       \E fault \in SourceFaults(source) :
          LET r == ProcessSource(store, tableExists, source, fault) IN
          /\ store' = r.store
          /\ processing_summary_list' = Append(processing_summary_list, r.entry)
    /\ UNCHANGED <<tableExists, notFlat, configFile, config, exitCode, nLoads, cfgBefore,
                   flatPc, flatInitOk, download_sources>>

\* main, lines 578-587: the summary report
MainReport ==
    /\ flatPc = "loop"
    /\ Len(processing_summary_list) = Len(download_sources)
    /\ flatPc' = "reported"
    /\ UNCHANGED <<store, tableExists, notFlat, configFile, config, exitCode, nLoads,
                   cfgBefore, flatInitOk, download_sources, processing_summary_list>>

NextFlat ==
    \/ LoadConfigCall
    \/ MainStart
    \/ \E engineOk \in BOOLEAN : MainInitDb(engineOk)
    \/ MainSource
    \/ MainReport

SpecFlat == InitFlat /\ [][NextFlat]_vars


\* ------------------------------------------------- parse_csv_file on its own
CsvLines ==
    { <<>>,                      \* an empty line
      <<" ", "">>,               \* delimiters and white space only
      <<" A", "B ">>,
      <<"1", "2">>,
      <<" 1 ">>,                 \* shorter than the others
      <<"1", "2", "9">> }        \* longer

ParserFiles ==
    {NoFile}
    \cup UNION {{[exists |-> TRUE, errAt |-> e, lines |-> ls] : e \in 0..Len(ls)} :
                   ls \in SeqUpTo(CsvLines, MaxLines)}

notParser == <<store, tableExists, pipeVars, flatVars, extractVars, resolveVars, testerVars, insertVars, engine>>

InitParser ==
    /\ engine = "sqlite3"
    /\ store = <<>>
    /\ tableExists = FALSE
    /\ PipelineAtRest
    /\ FlatAtRest
    /\ ExtractAtRest
    /\ ResolveAtRest
    /\ TesterAtRest
    /\ InsertAtRest
    /\ file_path \in ParserFiles
    /\ parse_result = NotParsed

ParseCall ==
    /\ ~parse_result.returned
    /\ LET r == ParseCsvFile(file_path) IN
       parse_result' = [returned |-> TRUE, header |-> r.header, rows |-> r.rows]
    /\ UNCHANGED <<file_path, notParser>>

NextParser == ParseCall

SpecParser == InitParser /\ [][NextParser]_vars


\* ------------------------------------------------- extract_archive on its own
Archives ==
    { [name |-> "empty.zip", entries |-> {}],
      [name |-> "dots.zip", entries |-> {".hidden"}],
      [name |-> "flat.zip", entries |-> {"a.csv", ".hidden"}],
      [name |-> "nested.zip",
       entries |-> {"a.csv", "sub/b.csv", "sub/.DS_Store", "sub/deep/c.txt", ".git/config"}] }

\* what an earlier run may have left in the output directory
StaleDirs ==
    {NoDir(a) : a \in BOOLEAN}
    \cup {Dir(a, {FileFrom(rel, "earlier") : rel \in leftover}) :
             a \in BOOLEAN, leftover \in SUBSET {"old.csv", "a.csv"}}

Outcomes(archive) ==
    {[raises |-> "none", written |-> archive.entries],
     [raises |-> "makedirs", written |-> {}]}
    \cup {[raises |-> "patool", written |-> w] :
             w \in {{}, archive.entries \cap {"a.csv", ".hidden"}}}

notExtract == <<store, tableExists, pipeVars, flatVars, parserVars, resolveVars, testerVars, insertVars, engine>>

InitExtract ==
    /\ engine = "sqlite3"
    /\ store = <<>>
    /\ tableExists = FALSE
    /\ PipelineAtRest
    /\ FlatAtRest
    /\ ParserAtRest
    /\ ResolveAtRest
    /\ TesterAtRest
    /\ InsertAtRest
    /\ output_directory \in StaleDirs
    /\ nExtracts = 0
    /\ lastExtract = NoExtract
    /\ prevExtract = NoExtract

ExtractCall(archive, outcome) ==
    /\ nExtracts < MaxExtracts
    /\ nExtracts' = nExtracts + 1
    /\ LET r == ExtractInto(output_directory, archive, outcome) IN
       /\ output_directory' = r.dir
       /\ lastExtract' = [called |-> TRUE, archive |-> archive, raises |-> outcome.raises,
                          partial |-> outcome.written # {}, pre |-> output_directory,
                          list |-> r.list]
    /\ prevExtract' = lastExtract
    /\ UNCHANGED notExtract

NextExtract == \E archive \in Archives : \E outcome \in Outcomes(archive) : ExtractCall(archive, outcome)

SpecExtract == InitExtract /\ [][NextExtract]_vars


\* --------------------------------- content-type resolution on its own
BaseDirs == {BaseDir(FALSE, {}), BaseDir(TRUE, {}), BaseDir(TRUE, {"data"})}

notResolve == <<store, tableExists, pipeVars, flatVars, parserVars, extractVars, testerVars, insertVars, engine>>

InitResolve ==
    /\ engine = "sqlite3"
    /\ store = <<>>
    /\ tableExists = FALSE
    /\ PipelineAtRest
    /\ FlatAtRest
    /\ ParserAtRest
    /\ ExtractAtRest
    /\ TesterAtRest
    /\ InsertAtRest
    /\ source_file \in Uploads
    /\ baseDir \in BaseDirs
    /\ resolved = NotResolved

\* get_file_mime_type(file_path)
GetFileMimeTypeCall ==
    /\ ~resolved.called
    /\ resolved' = [called |-> TRUE, fn |-> "get_file_mime_type",
                    value |-> GetFileMimeType(source_file), files |-> <<>>, pre |-> baseDir]
    /\ UNCHANGED <<source_file, baseDir, notResolve>>

\* handle_uploaded_file(source_file_path, temp_processing_dir_base)
HandleUploadedFileCall ==
    /\ ~resolved.called
    /\ LET h == HandleUploadedFile(source_file) IN
       resolved' = [called |-> TRUE, fn |-> "handle_uploaded_file",
                    value |-> h.mime, files |-> h.files, pre |-> baseDir]
    /\ baseDir' = HandleEffect(baseDir, source_file)
    /\ UNCHANGED <<source_file, notResolve>>

NextResolve == GetFileMimeTypeCall \/ HandleUploadedFileCall

SpecResolve == InitResolve /\ [][NextResolve]_vars

\* ------------------------------------------------- the template tester on its own
TestLines == {"a,b", "a;b", ""}

CsvTexts ==
    {CsvText(FALSE, "", <<>>, 0, "")} \cup
    {CsvText(TRUE, e, ls, 0, "") : e \in KnownEncodings, ls \in SeqUpTo(TestLines, MaxLines)} \cup
    UNION {{CsvText(TRUE, "utf-8", ls, b, k) : b \in 1..Len(ls), k \in {"decode", "csv"}} :
           ls \in SeqUpTo(TestLines, MaxLines)}

Templates ==
    {Template(d, n, e) : d \in {",", ";", "\t"}, n \in 0..MaxSkip,
                         e \in KnownEncodings \cup {"bogus"}}

notTester == <<store, tableExists, pipeVars, flatVars, parserVars, extractVars, resolveVars, insertVars, engine>>

InitTester ==
    /\ engine = "sqlite3"
    /\ store = <<>>
    /\ tableExists = FALSE
    /\ PipelineAtRest
    /\ FlatAtRest
    /\ ParserAtRest
    /\ ExtractAtRest
    /\ ResolveAtRest
    /\ InsertAtRest
    /\ tested_file \in CsvTexts
    /\ tested_template = NoTemplate
    /\ test_result = NotTested
    /\ nTests = 0

\* apply_template_to_csv(csv_filepath, template)
ApplyTemplateCall(template) ==
    /\ nTests < MaxTests
    /\ nTests' = nTests + 1
    /\ tested_template' = template
    /\ test_result' = [called |-> TRUE, result |-> ApplyTemplateToCsv(tested_file, template)]
    /\ UNCHANGED <<tested_file, notTester>>

NextTester == \E template \in Templates : ApplyTemplateCall(template)

SpecTester == InitTester /\ [][NextTester]_vars

\* ------------------------------------- the two inserts on the same batch
\* headers as parse_csv_file may return them: the cells of the first line, names
\* repeated or empty included
BatchHeaders == Headers \cup { <<"A", "A">>, <<"", "B">> }

Batches ==
    UNION {{Batch(header, rows, fault, hasTable) :
                fault \in Faults(header, rows), hasTable \in BOOLEAN} :
           header \in BatchHeaders, rows \in SeqUpTo(RowSet, MaxRows)}

notInsert == <<store, tableExists, pipeVars, flatVars, parserVars, extractVars, resolveVars,
               testerVars, engine>>

InitInsert ==
    /\ engine \in Engines
    /\ store = <<>>
    /\ tableExists = FALSE
    /\ PipelineAtRest
    /\ FlatAtRest
    /\ ParserAtRest
    /\ ExtractAtRest
    /\ ResolveAtRest
    /\ TesterAtRest
    /\ batch \in Batches
    /\ flat_outcome = NotInserted
    /\ pipeline_outcome = NotInserted

\* Taifexdtool.insert_data(db_path, file_source, {"header": header, "rows": rows})
\* on a database of its own
InsertDataCall ==
    /\ ~flat_outcome.called
    /\ LET r == FlatInsertData(<<>>, batch.hasTable, "batch.csv", batch.header, batch.rows,
                               batch.fault)
       IN  flat_outcome' = [called |-> TRUE, ok |-> r.ok, count |-> r.count,
                            written |-> r.store]
    /\ UNCHANGED <<batch, pipeline_outcome, notInsert>>

\* database.insert_structured_data(db_path, file_source, "generic_csv", header, rows)
\* on a database of its own
InsertStructuredDataCall ==
    /\ ~pipeline_outcome.called
    /\ LET r == InsertStructuredData(<<>>, batch.hasTable, "batch.csv", batch.header,
                                     batch.rows,
                                     EngineFault(engine, batch.header, batch.rows,
                                                 batch.fault))
       IN  pipeline_outcome' = [called |-> TRUE, ok |-> r.ok, count |-> r.count,
                                written |-> r.store]
    /\ UNCHANGED <<batch, flat_outcome, notInsert>>

NextInsert == InsertDataCall \/ InsertStructuredDataCall

SpecInsert == InitInsert /\ [][NextInsert]_vars


\* ------------------------------------------------------------ the claims
Returned == pc = "done"
Ended == pc \in {"done", "raised"}
Called(fn) == fn \in Range(calls)
Appended == SubSeq(store, Len(last.pre) + 1, Len(store))

\* the k-th smallest element of a set of positions
Nth(S, k) == CHOOSE i \in S : Cardinality({j \in S : j <= i}) = k

\* the records a batch adds for the rows at the positions `good`, in row order,
\* for a header of distinct column names
ExpectedRecords(file_source, header, rows, good) ==
    [k \in 1..Cardinality(good) |->
        [file_source |-> file_source,
         data_type |-> "generic_csv",
         row_number |-> Nth(good, k),
         row_content_json |-> [c \in 1..Len(header) |-> <<header[c], rows[Nth(good, k)][c]>>]]]

Unsupported(u) ==
    /\ u.exists /\ u.readable /\ u.mime # NoMime
    /\ \/ u.mime \notin DOMAIN SUPPORTED_MIME_TYPES
       \/ SUPPORTED_MIME_TYPES[u.mime] \notin (ArchiveCategories \cup TabularCategories)

EngineRaised(c) == c.fault.connect \/ c.fault.commit \/ c.fault.failRows # {}

C6_EngineFailureRollsBack ==
    (last.op = "insert" /\ last.hadTable /\ EngineRaised(last)) =>
        /\ store = last.pre
        /\ ~last.ok
        /\ last.count = 0

\* C7: with a non-empty header, non-empty rows and a working store,
\* insert_structured_data returns (true, n), n the number of rows as long as the
\* header (and serializable), and adds exactly those rows to the store.
C7_InsertCountsMatchingRows ==
    (/\ last.op = "insert" /\ last.header # <<>> /\ last.rows # <<>>
     /\ last.fault = NoFault /\ last.hadTable)
    => LET good == {i \in 1..Len(last.rows) :
                       /\ Len(last.rows[i]) = Len(last.header)
                       /\ \A c \in 1..Len(last.rows[i]) : last.rows[i][c] # NonJson}
       IN  /\ last.ok
           /\ last.count = Cardinality(good)
           /\ store = last.pre
                        \o ExpectedRecords(last.file_source, last.header, last.rows, good)

\* the same for an engine that takes the INSERT text
C7_CountsWhenStatementTaken == engine = "accepting" => C7_InsertCountsMatchingRows

C7_Witness ==
    /\ last.op = "insert"
    /\ last.header = <<"A", "B">>
    /\ last.rows = << <<"1", "2", "9">>, <<"3", "4">> >>
    /\ last.fault = NoFault
    /\ last.ok /\ last.count = 1

\* C8: an empty header returns (false, 0) without opening the store, even when rows
\* is empty too; a non-empty header with no rows returns (true, 0); the store is
\* unchanged in both cases; header-only input parses to a header with no rows and
\* stores as (true, 0).
C8_ValidationOrder ==
    /\ (last.op = "insert" /\ last.header = <<>>) =>
          (~last.ok /\ last.count = 0 /\ last.connects = 0 /\ store = last.pre)
    /\ (last.op = "insert" /\ last.header # <<>> /\ last.rows = <<>>) =>
          (last.ok /\ last.count = 0 /\ store = last.pre)
    /\ (Returned /\ upload.copyOk /\ upload.content = F_hdr) =>
          /\ Len(visits) = 1
          /\ visits[1].what = "stored"
          /\ visits[1].header = <<"A", "B">> /\ visits[1].rows = <<>>
          /\ visits[1].ok /\ visits[1].count = 0
          /\ store = last.pre

C8_Witness ==
    last.op = "insert" /\ last.header = <<>> /\ last.rows = <<>> /\ last.pre # <<>>

C10_AppendOnly == [][IsPrefix(store, store')]_vars

C10_Witness ==
    /\ last.op = "insert" /\ last.fault.commit /\ last.count > 0
    /\ last.pre # <<>> /\ store = last.pre

\* C11: init_db on a usable store path returns true and leaves the record table in
\* place; when the table was already there (a repeated call, with or without records
\* inserted in between) every stored record is unchanged, and when it was absent it
\* is created empty.
C11_UsablePathInitSucceeds ==
    (last.op = "init_db" /\ ~last.fault.connect) =>
        /\ last.ok
        /\ tableExists
        /\ store = last.pre
        /\ ~last.hadTable => store = <<>>

\* whenever init_db does return true the table is in place and the records are as
\* they were
C11_InitDbIdempotent ==
    (last.op = "init_db" /\ last.ok) =>
        /\ tableExists
        /\ store = last.pre
        /\ ~last.hadTable => store = <<>>

C11_Witness ==
    /\ last.op = "init_db" /\ last.ok /\ pc = "called"
    /\ last.hadTable /\ last.pre # <<>>
    /\ store = last.pre

\* C12: when store-schema initialisation fails, process_single_file calls neither
\* resolver, extractor, parser nor insert, creates no temporary directory and
\* reports failure.
C12_ProcessAborts ==
    (last.op = "init_db" /\ ~last.ok /\ pc \in {"aborted", "loop", "done", "raised"}) =>
        /\ pc = "aborted"
        /\ calls = <<"init_db">>
        /\ tempDirs = {}
        /\ store = last.pre
        /\ ret = [kind |-> "bool", status |-> FALSE]

C12_ProcessWitness == pc = "aborted" /\ upload.name = "data.zip" /\ upload.members # <<>>

\* C12: the flat tool's run processes no source after a failed init_db.
C12_FlatRunAborts ==
    (flatPc \in {"loop", "reported"} /\ ~flatInitOk) => processing_summary_list = <<>>

\* the positions of the lines that have a cell which is not blank once trimmed
NonBlankLines(ls) ==
    {i \in 1..Len(ls) : \E c \in 1..Len(ls[i]) : StripCell(ls[i][c]) # ""}

\* C13: for a readable, decodable file with a non-blank line, parse_csv_file returns
\* as header the trimmed cells of the first non-blank line and as rows exactly the
\* later non-blank lines, trimmed cell by cell, in file order, whatever their length.
C13_HeaderAndRows ==
    (/\ parse_result.returned /\ file_path.exists /\ file_path.errAt = 0
     /\ NonBlankLines(file_path.lines) # {})
    => LET ls == file_path.lines
           h == Nth(NonBlankLines(ls), 1)
           kept == NonBlankLines(ls) \ {h}
       IN  /\ parse_result.header = StripRow(ls[h])
           /\ parse_result.rows = [k \in 1..Cardinality(kept) |-> StripRow(ls[Nth(kept, k)])]

C13_Witness ==
    /\ parse_result.returned
    /\ file_path.errAt = 0
    /\ file_path.lines = << <<" ", "">>, <<" A", "B ">>, <<"1", "2", "9">> >>
    /\ parse_result.header = <<"A", "B">>
    /\ parse_result.rows = << <<"1", "2", "9">> >>

\* C14: every failure of parse_csv_file (file absent, no non-blank line, a decode or
\* syntax error at any line) returns the sentinel of empty header and empty rows; so
\* an empty header always comes with empty rows, and rows read before an error in
\* the middle of the file are not returned.
C14_FailuresGiveSentinel ==
    parse_result.returned =>
        /\ (\/ ~file_path.exists
            \/ NonBlankLines(file_path.lines) = {}
            \/ file_path.errAt \in 1..Len(file_path.lines))
           => (parse_result.header = <<>> /\ parse_result.rows = <<>>)
        /\ parse_result.header = <<>> => parse_result.rows = <<>>

C14_Witness ==
    /\ parse_result.returned
    /\ file_path.lines = << <<" A", "B ">>, <<"1", "2">>, <<"1", "2">> >>
    /\ file_path.errAt = 3
    /\ parse_result.header = <<>> /\ parse_result.rows = <<>>

\* C15 as stated: every row the parser returns has a non-blank cell and exactly as
\* many cells as the header.
C15_RowsMatchHeader ==
    parse_result.returned =>
        \A k \in 1..Len(parse_result.rows) :
            /\ AnyNonBlank(parse_result.rows[k])
            /\ Len(parse_result.rows[k]) = Len(parse_result.header)

\* C15 amended: every row the parser returns has a non-blank cell; a non-blank line
\* after the header that is shorter or longer than the header is returned as a row
\* of its own length, neither dropped, truncated nor padded.
C15_RowsNonBlankAnyLength ==
    (parse_result.returned /\ parse_result.header # <<>>) =>
        LET ls == file_path.lines
            h == Nth(NonBlankLines(ls), 1)
            ragged == {i \in NonBlankLines(ls) : i > h /\ Len(ls[i]) # Len(ls[h])}
            off == {k \in 1..Len(parse_result.rows) :
                       Len(parse_result.rows[k]) # Len(parse_result.header)}
        IN  /\ \A k \in 1..Len(parse_result.rows) : AnyNonBlank(parse_result.rows[k])
            /\ Cardinality(off) = Cardinality(ragged)
            /\ \A k \in 1..Cardinality(off) :
                  parse_result.rows[Nth(off, k)] = StripRow(ls[Nth(ragged, k)])

C15_Witness ==
    /\ parse_result.returned
    /\ parse_result.header = <<"A", "B">>
    /\ parse_result.rows = << <<"1">>, <<"1", "2", "9">> >>

\* C16: extract_archive empties the output directory before it extracts: after a call
\* that went through, every file in the directory comes from this call's archive and
\* every path returned is one of the archive's own entries, whatever an earlier
\* complete or failed run left there; two successive calls with the same archive
\* return the same members.
C16_ExtractIdempotent ==
    (lastExtract.called /\ lastExtract.raises = "none") =>
        /\ \A f \in output_directory.files : f.origin = lastExtract.archive.name
        /\ \A k \in 1..Len(lastExtract.list) :
              lastExtract.list[k].rel \in lastExtract.archive.entries
        /\ (/\ prevExtract.called /\ prevExtract.raises = "none"
            /\ prevExtract.archive = lastExtract.archive)
           => Range(lastExtract.list) = Range(prevExtract.list)

C16_Witness ==
    /\ lastExtract.called /\ prevExtract.called
    /\ lastExtract.raises = "none" /\ prevExtract.raises = "none"
    /\ lastExtract.archive.name = "flat.zip" /\ prevExtract.archive.name = "flat.zip"
    /\ \E f \in prevExtract.pre.files : f.rel = "old.csv"
    /\ lastExtract.list # <<>>

\* C17: extract_archive returns an empty sequence when extraction fails and when it
\* yields no file to list; after a failure the output directory, with whatever was
\* extracted into it, is gone.
C17_ExtractFailureCleansUp ==
    lastExtract.called =>
        /\ lastExtract.raises # "none" =>
              (lastExtract.list = <<>> /\ ~output_directory.exists
               /\ output_directory.files = {})
        /\ (lastExtract.raises = "none"
            /\ \A rel \in lastExtract.archive.entries : HiddenFile(rel))
           => lastExtract.list = <<>>

C17_Witness ==
    /\ lastExtract.called
    /\ lastExtract.raises = "patool" /\ lastExtract.partial
    /\ lastExtract.pre.exists /\ lastExtract.pre.files # {}
    /\ ~output_directory.exists

\* C18: after a successful extraction the result holds, once each, the absolute path
\* of every file under the output directory, at any depth, whose name does not begin
\* with '.', and no file whose name begins with '.'.
C18_ListsVisibleFiles ==
    (lastExtract.called /\ lastExtract.raises = "none") =>
        LET visible == {rel \in lastExtract.archive.entries :
                           rel \notin {".hidden", "sub/.DS_Store"}}
        IN  /\ {path.rel : path \in Range(lastExtract.list)} = visible
            /\ \A path \in Range(lastExtract.list) : path.abs
            /\ Len(lastExtract.list) = Cardinality(visible)

C18_Witness ==
    /\ lastExtract.called /\ lastExtract.raises = "none"
    /\ ~lastExtract.pre.abs
    /\ lastExtract.archive.name = "nested.zip"
    /\ Len(lastExtract.list) = 4
    /\ \E k \in 1..Len(lastExtract.list) : lastExtract.list[k].rel = "sub/deep/c.txt"

\* what a function returns for a path it cannot access, and for bytes it cannot classify
AccessSentinel(fn) == IF fn = "handle_uploaded_file" THEN AccessError ELSE NoMime
DetectionSentinel(fn) == IF fn = "handle_uploaded_file" THEN DetectionError ELSE NoMime

\* C19: content-type resolution returns the access-error sentinel for a missing or
\* unreadable path, a detection-error sentinel distinct from it when the bytes cannot
\* be classified, and the content type otherwise; a call that only resolves changes
\* no file or directory.
C19_ThreeOutcomesNoEffect ==
    resolved.called =>
        /\ AccessSentinel(resolved.fn) # DetectionSentinel(resolved.fn)
        /\ resolved.value =
              (IF ~source_file.exists \/ ~source_file.readable
               THEN AccessSentinel(resolved.fn)
               ELSE IF source_file.mime = NoMime THEN DetectionSentinel(resolved.fn)
               ELSE source_file.mime)
        /\ (resolved.fn = "get_file_mime_type" \/ StartsWithError(resolved.value))
           => baseDir = resolved.pre

\* C19, what does hold of handle_uploaded_file: the three outcomes are told apart
C19_HandleTellsApart ==
    (resolved.called /\ resolved.fn = "handle_uploaded_file") =>
        resolved.value =
           (IF ~source_file.exists \/ ~source_file.readable THEN AccessError
            ELSE IF source_file.mime = NoMime THEN DetectionError
            ELSE source_file.mime)

\* C19, what does hold of get_file_mime_type: no file or directory changes
C19_GetMimeChangesNothing ==
    (resolved.called /\ resolved.fn = "get_file_mime_type") => baseDir = resolved.pre

\* C19 fails for handle_uploaded_file on its own as well: a detection error after
\* the base directory was created
C19_HandleChangesNothing ==
    (resolved.called /\ resolved.fn = "handle_uploaded_file"
     /\ StartsWithError(resolved.value))
    => baseDir = resolved.pre

C20_SecondLoadSame ==
    [][(nLoads' = nLoads + 1 /\ nLoads >= 1 /\ exitCode' = 0) => config' = config]_vars

\* C21: load_config on an existing file that is not valid JSON ends the program with
\* exit code 1, returns no configuration and leaves the malformed file as it was.
C21_MalformedExits ==
    (nLoads > 0 /\ cfgBefore.kind = "malformed") =>
        /\ exitCode = 1
        /\ flatPc = "exited"
        /\ config = NoConfig
        /\ configFile = cfgBefore
        /\ configFile.kind = "malformed"
        /\ processing_summary_list = <<>>

C21_Witness ==
    /\ nLoads = 1 /\ cfgBefore.kind = "malformed"
    /\ exitCode = 1 /\ configFile.kind = "malformed"

\* C22: for every file and template, the result of apply_template_to_csv has
\* error_message None when success is true, and has error_message set and
\* sample_data empty when success is false.
C22_ResultConsistent ==
    test_result.called =>
        LET r == test_result.result IN
        /\ r.success => r.error_message = NoMessage
        /\ ~r.success => (r.error_message # NoMessage /\ r.sample_data = <<>>)

\* a member whose name and content type do not indicate tabular data, a member
\* whose content type cannot be detected included
NonTabular(m) ==
    /\ ~EndsWithCsv(m.name)
    /\ GetFileMimeType(m) = NoMime \/ ~TextInMime(GetFileMimeType(m))

C23_DetectedNonTabularSkipped ==
    (pc \in {"loop", "done", "raised"} /\ extracted_files # <<>>) =>
        \A i \in 1..Len(extracted_files) :
            (NonTabular(extracted_files[i]) /\ GetFileMimeType(extracted_files[i]) # NoMime
             /\ i < idx) =>
                /\ Len(summary) >= i
                /\ summary[i] = Entry(extracted_files[i].name, Skipped)
                /\ visits[i].what = "skipped"

\* a step over a non-tabular member whose content type was detected calls neither
\* parser nor store, keeps the overall status and moves to the next member
C23_SkipStep ==
    [][(pc = "loop" /\ idx <= Len(extracted_files) /\ idx' # idx
        /\ NonTabular(extracted_files[idx]))
       => /\ idx' = idx + 1
          /\ pc' = "loop"
          /\ overall_success' = overall_success
          /\ store' = store
          /\ calls' = Append(calls, "get_file_mime_type")
          /\ summary' = Append(summary, Entry(extracted_files[idx].name, Skipped))]_vars

\* handle_uploaded_file takes the upload for an archive (file_handler.py lines 106-112)
RecognisedArchive(u) ==
    /\ u.exists /\ u.readable
    /\ GetFileMimeType(u) \in DOMAIN SUPPORTED_MIME_TYPES
    /\ SUPPORTED_MIME_TYPES[GetFileMimeType(u)] \in ArchiveCategories

CallsOf(fn) == {k \in 1..Len(calls) : calls[k] = fn}

\* C25: the stages run in order for each member: insert_structured_data is called
\* for a member only after parse_csv_file returned a non-empty header for that
\* member, parse_csv_file is called only after stage 1 ended without failure, and
\* a member with an empty header never reaches the store and is marked failed.
C25_StagesInOrder ==
    (pc \in {"loop", "done", "raised"}) =>
        /\ \A k \in CallsOf("insert_structured_data") :
               k > 1 /\ calls[k - 1] = "parse_csv_file"
        /\ \A k \in CallsOf("parse_csv_file") :
               /\ \E j \in 1..(k - 1) : calls[j] = "handle_uploaded_file"
               /\ Stage1Success(detected_mime, extracted_files)
               /\ ~StartsWithError(detected_mime)
        /\ Cardinality(CallsOf("insert_structured_data"))
             = Cardinality({i \in 1..Len(visits) : visits[i].what = "stored"})
        /\ Cardinality(CallsOf("parse_csv_file"))
             = Cardinality({i \in 1..Len(visits) : visits[i].what \in {"stored", "parse_failed"}})
        /\ \A i \in 1..Len(visits) :
               LET parsed == ParseCsvFile(extracted_files[visits[i].member].content) IN
               /\ visits[i].what = "stored" =>
                     (parsed.header # <<>> /\ visits[i].header = parsed.header)
               /\ (visits[i].what # "skipped" /\ parsed.header = <<>>) =>
                     /\ visits[i].what = "parse_failed"
                     /\ summary[i] = Entry(extracted_files[visits[i].member].name, Failed)
                     /\ ~overall_success

\* a member with an empty header leaves the store as it was
C25_EmptyHeaderStoresNothing ==
    [][(pc = "loop" /\ idx <= Len(extracted_files) /\ idx' # idx
        /\ ParseCsvFile(extracted_files[idx].content).header = <<>>)
       => (store' = store /\ last' = last)]_vars

C25_Witness ==
    /\ pc = "done" /\ Len(visits) = 2
    /\ visits[1].what = "parse_failed" /\ visits[2].what = "stored"
    /\ calls[Len(calls)] = "insert_structured_data"

\* the engine raises nowhere while the batch is processed
NoEngineError(b) == b.fault = NoFault /\ b.hasTable

\* C26: insert_data returns success = true whenever all rows were processed
\* without a storage-engine error, rows skipped for length mismatch included, its
\* count is the number of rows inserted, and it reports the same (success, count)
\* as insert_structured_data for the same header and rows.
C26_FlatInsertReports ==
    (flat_outcome.called /\ pipeline_outcome.called /\ batch.header # <<>>
     /\ NoEngineError(batch)) =>
        /\ flat_outcome.ok
        /\ flat_outcome.count = Len(flat_outcome.written)
        /\ flat_outcome.ok = pipeline_outcome.ok
        /\ flat_outcome.count = pipeline_outcome.count

\* the two agree, and the count is the number of rows inserted, whenever the
\* batch has no rows or at least one row is inserted, and the engine takes the
\* INSERT text of insert_structured_data
C26_AgreeUnlessAllSkipped ==
    (flat_outcome.called /\ pipeline_outcome.called /\ NoEngineError(batch)
     /\ engine = "accepting"
     /\ (batch.rows = <<>> \/ Attempted(batch.header, batch.rows) # {})) =>
        /\ flat_outcome.count = Len(flat_outcome.written)
        /\ flat_outcome.ok = pipeline_outcome.ok
        /\ flat_outcome.count = pipeline_outcome.count

\* C27: whenever process_single_file returns a status together with a summary,
\* the status is failed exactly when at least one summary entry is failed (so
\* skipped entries never make it failed), and the summary is not empty.
C27_FailedIffFailedEntry ==
    (pc = "done" /\ ret.kind = "pair") =>
        /\ summary # <<>>
        /\ ~ret.status <=> (\E i \in 1..Len(summary) : summary[i].status = Failed)
        /\ ret.status = overall_success

C27_Witness ==
    /\ pc = "done" /\ ret.kind = "pair" /\ ret.status
    /\ Len(summary) = 2
    /\ summary[1].status = Skipped /\ summary[2].status = Success

\* a run that ends failed beside a skipped entry
C27_FailedWitness ==
    /\ pc = "done" /\ ret.kind = "pair" /\ ~ret.status
    /\ Len(summary) = 2
    /\ summary[1].status = Failed /\ summary[2].status = Skipped

\* the summary has one entry per extracted member, in member order
OneEntryPerMember ==
    /\ Len(summary) = Len(extracted_files)
    /\ \A i \in 1..Len(summary) :
          /\ summary[i].source_filename = extracted_files[i].name
          /\ summary[i].status \in {Success, Failed, Skipped}

\* the summary is one entry naming the uploaded file
OneEntryForUpload ==
    /\ Len(summary) = 1
    /\ summary[1].source_filename = upload.name
    /\ summary[1].status \in {Failed, Skipped}

C28_ReturnedSummary ==
    (pc = "done" /\ ret.kind = "pair") =>
        IF extracted_files # <<>> THEN OneEntryPerMember ELSE OneEntryForUpload

\* the record stored for the row at position i maps every header column to the
\* row's cell at that position
OneEntryPerColumn(record, header, rows) ==
    /\ Len(record.row_content_json) = Len(header)
    /\ \A c \in 1..Len(header) :
          record.row_content_json[c] = <<header[c], rows[record.row_number][c]>>

C29_DistinctNames ==
    (pipeline_outcome.called
     /\ \A i, j \in 1..Len(batch.header) : batch.header[i] = batch.header[j] => i = j) =>
        \A k \in 1..Len(pipeline_outcome.written) :
            OneEntryPerColumn(pipeline_outcome.written[k], batch.header, batch.rows)

\* a record is stored under a header with an empty column name
C29_EmptyNameStored ==
    /\ pipeline_outcome.called /\ batch.header = <<"", "B">>
    /\ Len(pipeline_outcome.written) = 1
    /\ pipeline_outcome.written[1].row_content_json = << <<"", "1">>, <<"B", "2">> >>

\* C30: process_single_file returns the same shape of result on every exit path
\* that is not an exception -- the pair (overall status, summary list) -- the exit
\* after a failed store initialisation included.
C30_ReturnsPair == pc \in {"done", "aborted"} => ret.kind = "pair"

\* the return after the final banner is the pair
C30_FinalReturnIsPair == pc = "done" => (ret.kind = "pair" /\ ret.status = overall_success)

============================================================================
